---------------------------- MODULE Spec2Model ----------------------------
(***************************************************************************)
(* DUCC player ranking service: the players table and the handlers of      *)
(* app/main.py and app/sheet_sync.py (specification Spec), the retry       *)
(* wrapper of app/retry.py (SpecRetry) and ChessService.get_all_ratings of *)
(* app/services.py (SpecGather); SpecRequests follows each request from    *)
(* its validation by app/schemas.py to the handler's answer, and SpecFetch *)
(* the provider fetches under the retry wrapper.                           *)
(***************************************************************************)
EXTENDS Integers, Sequences, FiniteSets, TLC

VARIABLES
    players,    \* the committed rows of table "players"
    response,   \* what the last request did: handler, status, fetches made, body
    retry,      \* one call of a function wrapped by async_retry
    gather,     \* one call of ChessService.get_all_ratings
    request     \* the request being received or served, as sent and as validated

vars == <<players, response, retry, gather, request>>

-----------------------------------------------------------------------------
(* Bounds of the model *)

MaxPlayers == 3     \* rows the table may hold
MaxId == 3          \* largest primary key the model lets SQLite assign
MaxName == 3        \* player names are 1..MaxName
MaxHandle == 1      \* FIDE IDs and platform usernames are 1..MaxHandle
MaxRating == 2      \* ratings a provider may report are 1..MaxRating
MaxSheetRows == 2   \* rows a sheet may hold
MaxRetries == 3     \* async_retry is tried with retries in 0..MaxRetries
MaxDelay == 2       \* with delay in 1..MaxDelay
MaxBackoff == 2     \* and backoff in 1..MaxBackoff

-----------------------------------------------------------------------------
(* Values *)

NULL == -1          \* Python None / SQL NULL
RAISE == -2         \* the fetch raised after its retries were exhausted

Names == 1..MaxName
Handles == 1..MaxHandle
Ratings == 1..MaxRating
OptHandle == {NULL} \cup Handles

\* what a Chess.com or Lichess fetch gives its caller: an exception, None or a rating > 0
PlatformOutcome == {RAISE, NULL} \cup Ratings
\* what the FIDE fetch gives: an exception, no usable rapid rating (no data, or data whose
\* rapid_rating is None or 0), or a rapid rating
FideOutcome == {RAISE, NULL} \cup Ratings

MaxOf(S) == CHOOSE x \in S : \A y \in S : y <= x

\* models.Player(**player.dict()): ratings default to None
NewPlayer(id, name, f, c, l) ==
    [id |-> id, name |-> name, fide_id |-> f, chesscom_username |-> c,
     lichess_username |-> l, fide_rating |-> NULL, chesscom_rating |-> NULL,
     lichess_rating |-> NULL, highest_rating |-> NULL]

Ids(rows) == {r.id : r \in rows}

\* SQLite's rowid for an INSERT that names no id: one more than the largest in use
NextRowId(rows) == IF rows = {} THEN 1 ELSE MaxOf(Ids(rows)) + 1

\* the UNIQUE constraints of models.Player (the primary key, fide_id and the usernames)
UniqueOk(rows) ==
    \A p, q \in rows : p # q =>
        /\ p.id # q.id
        /\ (p.fide_id # NULL => p.fide_id # q.fide_id)
        /\ (p.chesscom_username # NULL => p.chesscom_username # q.chesscom_username)
        /\ (p.lichess_username # NULL => p.lichess_username # q.lichess_username)

-----------------------------------------------------------------------------
(* get_players_by_rating *)

\* ORDER BY highest_rating ASC, id ASC
RankBeforeAscending(p, q) ==
    IF p.highest_rating # q.highest_rating
        THEN p.highest_rating < q.highest_rating
        ELSE p.id < q.id

\* ORDER BY highest_rating DESC NULLS LAST, id ASC
RankBefore(p, q) ==
    IF p.highest_rating # q.highest_rating
        THEN p.highest_rating # NULL
             /\ (q.highest_rating = NULL \/ p.highest_rating > q.highest_rating)
        ELSE p.id < q.id

RECURSIVE GetPlayersByRating(_)
GetPlayersByRating(rows) ==
    IF rows = {} THEN <<>>
    ELSE LET first == CHOOSE p \in rows : \A q \in rows \ {p} : RankBefore(p, q)
         IN  <<first>> \o GetPlayersByRating(rows \ {first})

\* db.query(models.Player).all(): SQLite scans the table in rowid order
RECURSIVE AllPlayers(_)
AllPlayers(rows) ==
    IF rows = {} THEN <<>>
    ELSE LET first == CHOOSE p \in rows : \A q \in rows : p.id <= q.id
         IN  <<first>> \o AllPlayers(rows \ {first})

-----------------------------------------------------------------------------
(* The SQLAlchemy session of one request (autoflush off, expire on commit).  *)
(* db: the committed rows; view: the rows as the open transaction and the    *)
(* session's objects hold them; cur: the attributes of the handler's player  *)
(* object; attached: cur is a row of the session; isnew: cur was inserted by *)
(* this transaction and is not yet committed; calls: the provider fetches    *)
(* made so far, each with what it gave its caller.                           *)

RowById(rows, id) == CHOOSE r \in rows : r.id = id

OpenSession(rows) ==
    [db |-> rows, view |-> rows, cur |-> NewPlayer(NULL, NULL, NULL, NULL, NULL),
     attached |-> FALSE, isnew |-> FALSE, calls |-> {}]

\* the handler takes up the row with this id
Load(c, id) == [c EXCEPT !.cur = RowById(c.view, id), !.attached = TRUE, !.isnew = FALSE]

\* player.<attribute> = value
Assign(c, p) ==
    [c EXCEPT !.cur = p,
              !.view = IF c.attached THEN (@ \ {c.cur}) \cup {p} ELSE @]

\* db.commit(): everything pending in the session is flushed and committed
Commit(c) == [c EXCEPT !.db = c.view, !.isnew = FALSE]
\* a rollback that discards nothing
RollbackNothing(c) == c

\* db.rollback(): pending changes are dropped; an object inserted by the rolled-back
\* transaction leaves the session (it keeps its attributes), any other is reloaded
Rollback(c) ==
    IF c.attached /\ c.isnew
        THEN [c EXCEPT !.view = c.db, !.attached = FALSE, !.isnew = FALSE]
    ELSE IF c.attached
        THEN [c EXCEPT !.view = c.db, !.cur = RowById(c.db, c.cur.id)]
    ELSE [c EXCEPT !.view = c.db]

Call(c, prov, out) ==
    [c EXCEPT !.calls = @ \cup {[id |-> c.cur.id, prov |-> prov, res |-> out]}]

\* Python truth of a fetched rating: neither None nor 0
Truthy(x) == x # NULL /\ x # 0 /\ x # RAISE

RatingsOf(p) == {p.fide_rating, p.chesscom_rating, p.lichess_rating}

\* update_fide_rating(player, db)
UpdateFideRating(c, out) ==
    IF c.cur.fide_id = NULL THEN [ctx |-> c, ok |-> FALSE]
    ELSE LET c1 == Call(c, "fide", out) IN
         IF out = RAISE THEN [ctx |-> Rollback(c1), ok |-> FALSE]
         ELSE IF ~Truthy(out) THEN [ctx |-> c1, ok |-> FALSE]
         ELSE LET p1 == [c1.cur EXCEPT !.fide_rating = out]
                  rs == {r \in RatingsOf(p1) : r # NULL /\ r > 0}
                  p2 == IF rs # {} THEN [p1 EXCEPT !.highest_rating = MaxOf(rs)] ELSE p1
              IN  [ctx |-> Commit(Assign(c1, p2)), ok |-> TRUE]

\* one platform of update_player_ratings / get_player_ratings: fetch, store if truthy
FetchChesscom(c, out) ==
    IF c.cur.chesscom_username = NULL THEN c
    ELSE LET k == Call(c, "chesscom", out) IN
         IF Truthy(out) THEN Assign(k, [k.cur EXCEPT !.chesscom_rating = out]) ELSE k

FetchLichess(c, out) ==
    IF c.cur.lichess_username = NULL THEN c
    ELSE LET k == Call(c, "lichess", out) IN
         IF Truthy(out) THEN Assign(k, [k.cur EXCEPT !.lichess_rating = out]) ELSE k

\* "Update highest rating": max of the ratings that are not None, if any
SetHighest(c) ==
    LET rs == {r \in RatingsOf(c.cur) : r # NULL} IN
    IF rs # {} THEN Assign(c, [c.cur EXCEPT !.highest_rating = MaxOf(rs)]) ELSE c

\* update_player_ratings(player, db): each fetch has its own try/except
UpdatePlayerRatings(c, co, lo) ==
    LET c1 == FetchChesscom(c, co)
        c2 == FetchLichess(c1, lo)
        c3 == SetHighest(c2)
        ratings_updated ==
            \/ c.cur.chesscom_username # NULL /\ Truthy(co)
            \/ c.cur.lichess_username # NULL /\ Truthy(lo)
            \/ {r \in RatingsOf(c2.cur) : r # NULL} # {}
    IN  [ctx |-> IF ratings_updated THEN Commit(c3) ELSE c3, ok |-> TRUE]

-----------------------------------------------------------------------------
(* POST /players/ : create_player *)

\* lines 178-192: no identifier at all, or an identifier or the name is taken
\* the checks without the one on the name
CreateRejectedNoNameCheck(rows, req) ==
    \/ req.fide_id = NULL /\ req.chesscom_username = NULL /\ req.lichess_username = NULL
    \/ req.fide_id # NULL /\ \E p \in rows : p.fide_id = req.fide_id
    \/ req.chesscom_username # NULL
       /\ \E p \in rows : p.chesscom_username = req.chesscom_username
    \/ req.lichess_username # NULL
       /\ \E p \in rows : p.lichess_username = req.lichess_username

\* lines 178-192: the request is refused before anything is stored or fetched
CreateRejected(rows, req) ==
    \/ req.fide_id = NULL /\ req.chesscom_username = NULL /\ req.lichess_username = NULL
    \/ req.fide_id # NULL /\ \E p \in rows : p.fide_id = req.fide_id
    \/ req.chesscom_username # NULL
       /\ \E p \in rows : p.chesscom_username = req.chesscom_username
    \/ req.lichess_username # NULL
       /\ \E p \in rows : p.lichess_username = req.lichess_username
    \/ \E p \in rows : p.name = req.name

\* db.execute of the statement as a plain string, as SQLAlchemy 1.x runs it.
\* the rows UPDATE players SET id = id + 1 WHERE id >= :new_rank AND id != :temp_id moves
ShiftSet(rows, new_rank, temp_id) == {r \in rows : r.id >= new_rank /\ r.id # temp_id}

\* a shift that checks the primary key only once every row has moved
ShiftNeverCollides(rows, new_rank, temp_id) == FALSE

\* SQLite checks the primary key row by row, in rowid order: the statement fails as soon
\* as a moved row's new id is still held by another row
ShiftCollides(rows, new_rank, temp_id) ==
    \E r \in ShiftSet(rows, new_rank, temp_id) : r.id + 1 \in Ids(rows)

ShiftIds(rows, new_rank, temp_id) ==
    LET S == ShiftSet(rows, new_rank, temp_id)
    IN  (rows \ S) \cup {[r EXCEPT !.id = r.id + 1] : r \in S}

\* lines 216-220: one more than the number of other players rated strictly higher
NewRank(rows, obj) ==
    1 + Cardinality({p \in rows :
            /\ p.id # obj.id
            /\ p.highest_rating # NULL
            /\ (obj.highest_rating = NULL \/ p.highest_rating > obj.highest_rating)})

\* the whole handler: the rows committed when it ends, its status, the fetches it made
\* and the id under which the new player is stored (NULL: it is not stored)
CreatePlayerResult(rows, req, fo, co, lo) ==
    IF CreateRejected(rows, req)
        THEN [db |-> rows, status |-> 400, calls |-> {}, new_id |-> NULL]
    ELSE
    LET temp_id == NextRowId(rows)
        obj == NewPlayer(temp_id, req.name, req.fide_id, req.chesscom_username,
                         req.lichess_username)
        \* db.add(db_player); db.flush()
        c0 == [OpenSession(rows) EXCEPT !.view = rows \cup {obj}, !.cur = obj,
                                        !.attached = TRUE, !.isnew = TRUE]
        c1 == IF obj.fide_id # NULL THEN UpdateFideRating(c0, fo).ctx ELSE c0
        c2 == IF c1.cur.chesscom_username # NULL \/ c1.cur.lichess_username # NULL
                  THEN UpdatePlayerRatings(c1, co, lo).ctx ELSE c1
        ranked == GetPlayersByRating(c2.view)
        new_rank == NewRank(c2.view, c2.cur)
        shift == new_rank <= Len(ranked)
        shifted == IF shift THEN ShiftIds(c2.view, new_rank, temp_id) ELSE c2.view
        \* db_player.id = new_rank; db.commit()
        final == IF c2.attached
                     THEN (shifted \ {c2.cur}) \cup {[c2.cur EXCEPT !.id = new_rank]}
                     ELSE shifted
        \* what the except branch leaves: the last commit
        failed == [db |-> c2.db, status |-> 400, calls |-> c2.calls,
                   new_id |-> IF c2.attached /\ ~c2.isnew THEN temp_id ELSE NULL]
    IN  IF shift /\ ShiftCollides(c2.view, new_rank, temp_id) THEN failed
        ELSE IF ~UniqueOk(final) THEN failed
        \* db.refresh of an object that left the session raises, after the commit
        ELSE IF ~c2.attached
            THEN [db |-> final, status |-> 400, calls |-> c2.calls, new_id |-> NULL]
        ELSE [db |-> final, status |-> 200, calls |-> c2.calls, new_id |-> new_rank]

-----------------------------------------------------------------------------
(* POST /players/{player_id}/update/ : update_player (the ratings refresh) *)

RefreshPlayerResult(rows, id, fo, co, lo) ==
    IF id \notin Ids(rows) THEN [db |-> rows, status |-> 404, calls |-> {}]
    ELSE LET f == UpdateFideRating(Load(OpenSession(rows), id), fo)
             g == UpdatePlayerRatings(f.ctx, co, lo)
         IN  [db |-> g.ctx.db,
              status |-> IF ~f.ok /\ ~g.ok THEN 500 ELSE 200,
              calls |-> g.ctx.calls]

-----------------------------------------------------------------------------
(* GET /players/ratings/?refresh= : get_player_ratings *)

\* one turn of the loop under refresh (lines 293-328); o gives what each fetch does.
\* A Chess.com or Lichess fetch that raises leaves the try block: nothing after it runs
RefreshStep(c, id, o) ==
    LET c0 == Load(c, id)
        c1 == IF c0.cur.fide_id # NULL THEN UpdateFideRating(c0, o.fide).ctx ELSE c0
        c2 == FetchChesscom(c1, o.chesscom)
        c3 == FetchLichess(c2, o.lichess)
    IN  IF c1.cur.chesscom_username # NULL /\ o.chesscom = RAISE THEN c2
        ELSE IF c2.cur.lichess_username # NULL /\ o.lichess = RAISE THEN c3
        ELSE Commit(SetHighest(c3))

RECURSIVE RefreshLoop(_, _, _)
RefreshLoop(c, ids, outs) ==
    IF ids = <<>> THEN c
    ELSE RefreshLoop(RefreshStep(c, Head(ids), outs[Head(ids)]), Tail(ids), outs)

GetPlayerRatingsResult(rows, refresh, outs) ==
    LET all == AllPlayers(rows)
        c == IF refresh
                THEN RefreshLoop(OpenSession(rows), [i \in 1..Len(all) |-> all[i].id], outs)
                ELSE OpenSession(rows)
    IN  [db |-> c.db, status |-> 200, calls |-> c.calls]

-----------------------------------------------------------------------------
(* PUT /players/{player_id} : update_player (the identifiers) *)

\* HTTPException is an Exception: the 404 and the 400 raised inside the try block are
\* caught by "except Exception" and leave as 500, like an IntegrityError of the commit
PutPlayerResult(rows, id, req) ==
    IF id \notin Ids(rows) THEN [db |-> rows, status |-> 500]
    ELSE IF \E p \in rows : p.name = req.name /\ p.id # id
        THEN [db |-> rows, status |-> 500]
    ELSE LET old == RowById(rows, id)
             new == [old EXCEPT !.name = req.name, !.fide_id = req.fide_id,
                                !.chesscom_username = req.chesscom_username,
                                !.lichess_username = req.lichess_username]
             after == (rows \ {old}) \cup {new}
         IN  IF UniqueOk(after) THEN [db |-> after, status |-> 200]
             ELSE [db |-> rows, status |-> 500]

(* DELETE /players/delete/{player_name} : delete_player *)

\* a delete of every player of that name
DeletePlayerResultAllNamed(rows, name) ==
    LET named == {p \in rows : p.name = name} IN
    IF named = {} THEN [db |-> rows, status |-> 500]
    ELSE [db |-> rows \ named, status |-> 200]

\* .filter(name == player_name).first(): the first match of the rowid-order scan
DeletePlayerResult(rows, name) ==
    LET named == {p \in rows : p.name = name} IN
    IF named = {} THEN [db |-> rows, status |-> 500]
    ELSE [db |-> rows \ {RowById(named, MaxOf({0 - i : i \in Ids(named)}) * (0 - 1))},
          status |-> 200]

(* sheet_sync.sync_sheet_data; data is what get_sheet_data returned *)

\* a sheet of n rows holds at most n names
SheetRows == [name : 1..MaxSheetRows, fide_id : OptHandle]

\* a replacement whose failure leaves the bulk delete in place
SyncSheetResultKeepsDelete(rows, data) ==
    IF data = <<>> THEN [db |-> rows, status |-> 400]
    ELSE LET added == {NewPlayer(i, data[i].name, data[i].fide_id, NULL, NULL) :
                            i \in 1..Len(data)}
         IN  IF \A i, j \in 1..Len(data) :
                    i # j /\ data[i].fide_id # NULL => data[i].fide_id # data[j].fide_id
                 THEN [db |-> added, status |-> 200]
                 ELSE [db |-> {}, status |-> 500]

SyncSheetResult(rows, data) ==
    IF data = <<>> THEN [db |-> rows, status |-> 400]
    ELSE LET added == {NewPlayer(i, data[i].name, data[i].fide_id, NULL, NULL) :
                            i \in 1..Len(data)}
         IN  \* the flush of transaction.commit(): two rows with one fide_id fail it
             IF \A i, j \in 1..Len(data) :
                    i # j /\ data[i].fide_id # NULL => data[i].fide_id # data[j].fide_id
                 THEN [db |-> added, status |-> 200]
                 ELSE [db |-> rows, status |-> 500]

(* GET /players/rankings/ : get_rankings *)

GetRankings(rows) ==
    LET ranked == GetPlayersByRating(rows) IN
    [i \in 1..Len(ranked) |->
        [id |-> ranked[i].id, rank |-> ranked[i].id,
         highest_rating |-> ranked[i].highest_rating]]

-----------------------------------------------------------------------------
(* The service: one request at a time *)

\* the fetches made for a player one of whose fetches raised
FailureLog(calls) == {k \in calls : \E j \in calls : j.id = k.id /\ j.res = RAISE}

\* op: the handler; status: its HTTP status; fetches: how many provider fetches it made;
\* calls: its failure log; new_id: the id the created player is stored under; body: the
\* ranking it returned
Reply(op, status, calls, new_id, body) ==
    [op |-> op, status |-> status, fetches |-> Cardinality(calls),
     calls |-> FailureLog(calls), new_id |-> new_id, body |-> body]

PlayerRequests ==
    [name : Names, fide_id : OptHandle, chesscom_username : OptHandle,
     lichess_username : OptHandle]

\* names only matter by equality: a creation names a stored player or the first name
\* that no stored player has
CreateRequests(rows) ==
    {q \in PlayerRequests :
        \A n \in Names : n < q.name => \E p \in rows : p.name = n}

\* what the fetches for a player with these identifiers may do; a provider the player
\* has no identifier for is never asked
OutcomesWithin(p, fideOut, platformOut) ==
    [fide : IF p.fide_id = NULL THEN {NULL} ELSE fideOut,
     chesscom : IF p.chesscom_username = NULL THEN {NULL} ELSE platformOut,
     lichess : IF p.lichess_username = NULL THEN {NULL} ELSE platformOut]

OutcomesFor(p) == OutcomesWithin(p, FideOutcome, PlatformOutcome)

\* a request that is refused before any fetch
NoFetch == [fide |-> NULL, chesscom |-> NULL, lichess |-> NULL]

RECURSIVE OutcomeMaps(_)
OutcomeMaps(rows) ==
    IF rows = {} THEN {<<>>}
    ELSE LET p == CHOOSE r \in rows : TRUE IN
         {m @@ (p.id :> o) : m \in OutcomeMaps(rows \ {p}), o \in OutcomesFor(p)}

InitDb ==
    /\ players = {}
    /\ response = Reply("start", 200, {}, NULL, <<>>)

CreatePlayerWhen(fideOut, platformOut) ==
    /\ Cardinality(players) < MaxPlayers
    /\ NextRowId(players) <= MaxId
    /\ \E req \in CreateRequests(players) :
       \E o \in (IF CreateRejected(players, req) THEN {NoFetch}
                 ELSE OutcomesWithin(req, fideOut, platformOut)) :
         LET r == CreatePlayerResult(players, req, o.fide, o.chesscom, o.lichess) IN
         /\ players' = r.db
         /\ response' = Reply("create_player", r.status, r.calls, r.new_id, <<>>)
    /\ UNCHANGED <<retry, gather, request>>

CreatePlayer == CreatePlayerWhen(FideOutcome, PlatformOutcome)

\* a creation while the providers are down or do not know the player
CreatePlayerUnrated == CreatePlayerWhen({RAISE, NULL}, {RAISE, NULL})

RefreshPlayer ==
    /\ \E id \in 1..MaxId :
         \E o \in (IF id \in Ids(players) THEN OutcomesFor(RowById(players, id))
                   ELSE OutcomesFor(NewPlayer(id, NULL, NULL, NULL, NULL))) :
            LET r == RefreshPlayerResult(players, id, o.fide, o.chesscom, o.lichess) IN
            /\ players' = r.db
            /\ response' = Reply("refresh_player", r.status, r.calls, NULL, <<>>)
    /\ UNCHANGED <<retry, gather, request>>

GetPlayerRatings ==
    /\ \E refresh \in BOOLEAN :
         \E outs \in (IF refresh THEN OutcomeMaps(players) ELSE {<<>>}) :
            LET r == GetPlayerRatingsResult(players, refresh, outs) IN
            /\ players' = r.db
            /\ response' = Reply(IF refresh THEN "refresh_all" ELSE "get_ratings",
                                 r.status, r.calls, NULL, <<>>)
    /\ UNCHANGED <<retry, gather, request>>

PutPlayer ==
    /\ \E id \in 1..MaxId : \E req \in PlayerRequests :
            LET r == PutPlayerResult(players, id, req) IN
            /\ players' = r.db
            /\ response' = Reply("put_player", r.status, {}, NULL, <<>>)
    /\ UNCHANGED <<retry, gather, request>>

DeletePlayer ==
    /\ \E name \in Names :
            LET r == DeletePlayerResult(players, name) IN
            /\ players' = r.db
            /\ response' = Reply("delete_player", r.status, {}, NULL, <<>>)
    /\ UNCHANGED <<retry, gather, request>>

SyncSheet ==
    /\ \E n \in 0..MaxSheetRows : \E data \in [1..n -> SheetRows] :
            LET r == SyncSheetResult(players, data) IN
            /\ players' = r.db
            /\ response' = Reply("sync_sheet", r.status, {}, NULL, <<>>)
    /\ UNCHANGED <<retry, gather, request>>

Rankings ==
    /\ players' = players
    /\ response' = Reply("get_rankings", 200, {}, NULL, GetRankings(players))
    /\ UNCHANGED <<retry, gather, request>>

-----------------------------------------------------------------------------
(* retry.async_retry: one call of the wrapper, one step per invocation or sleep.    *)
(* The k-th invocation's exception is named k.  history lists what each invocation  *)
(* did: "ok" (it returned), "error" (it raised an exception of the `exceptions`     *)
(* tuple) or "other" (it raised another exception); sleeps lists the waits made.    *)
(* The k-th invocation's result is named k too.  fn, statuses and value belong to   *)
(* the provider fetches below.                                                      *)

RetryIdle ==
    [pc |-> "idle", retries |-> 0, delay |-> 0, backoff |-> 0, attempt |-> 0,
     current_delay |-> 0, last_exception |-> NULL, history |-> <<>>, sleeps |-> <<>>,
     raised |-> NULL, returned |-> NULL, fn |-> "any", statuses |-> <<>>, value |-> NULL]

\* last_exception = None; current_delay = delay; for attempt in range(retries + 1)
RetryStart ==
    /\ retry.pc = "idle"
    /\ \E n \in 0..MaxRetries, d \in 1..MaxDelay, b \in 1..MaxBackoff :
         retry' = [RetryIdle EXCEPT !.pc = "call", !.retries = n, !.delay = d,
                                    !.backoff = b, !.current_delay = d]
    /\ UNCHANGED <<players, response, gather, request>>

\* a break one attempt early
LastAttemptOneEarly(attempt, retries) == attempt + 1 >= retries

\* "if attempt == retries: break"
LastAttempt(attempt, retries) == attempt = retries

\* a wrapper that goes on to the next attempt although the call returned
ReturnsAndRetries(r, k) == [r EXCEPT !.pc = "sleep", !.returned = k]

\* "return await func(...)": the wrapper ends with the call's result
Returns(r, k) == [r EXCEPT !.pc = "returned", !.returned = k]

\* one invocation that did `did`, and the except branch up to the sleep
Invoked(did) ==
    LET k == Len(retry.history) + 1
        r == [retry EXCEPT !.history = Append(@, did)]
    IN  CASE did = "ok" -> Returns(r, k)
          [] did = "other" -> [r EXCEPT !.pc = "raised", !.raised = k]
          [] did = "error" ->
               IF LastAttempt(retry.attempt, retry.retries)
                   \* break; raise last_exception
                   THEN [r EXCEPT !.pc = "raised", !.last_exception = k, !.raised = k]
                   ELSE [r EXCEPT !.pc = "sleep", !.last_exception = k]

RetryInvoke ==
    /\ retry.pc = "call"
    /\ retry.fn = "any"
    /\ \E did \in {"ok", "error", "other"} : retry' = Invoked(did)
    /\ UNCHANGED <<players, response, gather, request>>

\* a delay that grows by addition
NextDelayLinear(current_delay, backoff) == current_delay + backoff

\* "current_delay *= backoff"
NextDelay(current_delay, backoff) == current_delay * backoff

\* await asyncio.sleep(current_delay); current_delay *= backoff; the next turn of the
\* loop, or "raise last_exception" when range(retries + 1) is used up
RetrySleep ==
    /\ retry.pc = "sleep"
    /\ LET r == [retry EXCEPT !.sleeps = Append(@, retry.current_delay),
                              !.current_delay = NextDelay(@, retry.backoff),
                              !.attempt = @ + 1]
       IN  retry' = IF r.attempt <= r.retries THEN [r EXCEPT !.pc = "call"]
                    ELSE [r EXCEPT !.pc = "raised", !.raised = r.last_exception]
    /\ UNCHANGED <<players, response, gather, request>>

\* the caller takes the result: the wrapper may be called again
RetryDone ==
    /\ retry.pc \in {"returned", "raised"}
    /\ retry' = RetryIdle
    /\ UNCHANGED <<players, response, gather, request>>

NextRetry ==
    \/ RetryStart
    \/ RetryInvoke
    \/ RetrySleep
    \/ RetryDone

-----------------------------------------------------------------------------
(* ChessService.get_chesscom_rating, get_lichess_rating and get_fide_rating under   *)
(* @async_retry(retries=3, delay=1, backoff=2): statuses lists the HTTP status of   *)
(* each request made, value is what the fetch returned.                             *)

ConfiguredRetries == 3
ConfiguredDelay == 1
ConfiguredBackoff == 2

Fetchers == {"chesscom", "lichess", "fide"}

HttpStatuses == {200, 404, 429, 500}

FetchStart ==
    /\ retry.pc = "idle"
    /\ \E fn \in Fetchers :
         retry' = [RetryIdle EXCEPT !.pc = "call", !.fn = fn,
                                    !.retries = ConfiguredRetries,
                                    !.delay = ConfiguredDelay,
                                    !.backoff = ConfiguredBackoff,
                                    !.current_delay = ConfiguredDelay]
    /\ UNCHANGED <<players, response, gather, request>>

\* a fetch that gives up on any status but 200
FetchResultStrict(fn, status, rating) ==
    IF status = 200 THEN [did |-> "ok", value |-> rating]
    ELSE [did |-> "error", value |-> NULL]

\* what one request makes of its response; rating is the rapid rating of the body of a
\* 200, 0 when it holds none.  get_fide_rating returns its player_data, named here by
\* its rapid_rating
FetchResult(fn, status, rating) ==
    IF fn = "fide"
        THEN IF status # 200 THEN [did |-> "error", value |-> NULL]
             ELSE [did |-> "ok", value |-> rating]
    ELSE IF status = 200
        THEN [did |-> "ok", value |-> IF rating > 0 THEN rating ELSE NULL]
    ELSE IF status = 404 THEN [did |-> "ok", value |-> NULL]
    ELSE [did |-> "error", value |-> NULL]

FetchInvoke ==
    /\ retry.pc = "call"
    /\ retry.fn \in Fetchers
    /\ \E status \in HttpStatuses :
       \E rating \in (IF status = 200 THEN 0..MaxRating ELSE {0}) :
         LET f == FetchResult(retry.fn, status, rating) IN
         retry' = [Invoked(f.did) EXCEPT !.statuses = Append(@, status),
                                         !.value = f.value]
    /\ UNCHANGED <<players, response, gather, request>>

NextFetch ==
    \/ FetchStart
    \/ FetchInvoke
    \/ RetrySleep
    \/ RetryDone

-----------------------------------------------------------------------------
(* ChessService.get_all_ratings: the requested fetches run concurrently under        *)
(* asyncio.gather(..., return_exceptions=True).  tasks: the platforms asked, in the   *)
(* order the tasks are appended; outcome: what each fetch gave (RAISE: its exception; *)
(* NULL: None; for "fide" the data is named by its rapid_rating, 0 when it has none); *)
(* order: the tasks in the order they completed; results: the dict returned.          *)

Platforms == <<"chess_com", "lichess", "fide">>

GatherIdle ==
    [pc |-> "idle", tasks |-> <<>>, outcome |-> <<>>, order |-> <<>>,
     results |-> [chess_com |-> NULL, lichess |-> NULL, fide |-> NULL,
                  highest_overall |-> 0]]

\* lines 225-242: results initialised, one task per identifier given
GatherStart ==
    /\ gather.pc = "idle"
    /\ \E asked \in SUBSET {1, 2, 3} :
         gather' = [GatherIdle EXCEPT
                       !.pc = "running",
                       !.tasks = SelectSeq(Platforms,
                                    LAMBDA pl : \E i \in asked : Platforms[i] = pl),
                       !.outcome = [i \in 1..Cardinality(asked) |-> NULL]]
    /\ UNCHANGED <<players, response, retry, request>>

\* get_fide_rating returns its player_data or raises; the other two return a rating
\* above 0, None, or raise
GatherOutcome(platform) ==
    IF platform = "fide" THEN {RAISE, 0} \cup Ratings ELSE {RAISE, NULL} \cup Ratings

\* one of the running fetches completes, in any order
GatherComplete ==
    /\ gather.pc = "running"
    /\ \E i \in 1..Len(gather.tasks) :
         /\ \A k \in 1..Len(gather.order) : gather.order[k] # i
         /\ \E out \in GatherOutcome(gather.tasks[i]) :
              gather' = [gather EXCEPT !.outcome[i] = out, !.order = Append(@, i)]
    /\ UNCHANGED <<players, response, retry, request>>

\* results taken in the order of completion
CompletedByFinishOrder(g, i) == g.outcome[g.order[i]]

\* completed_tasks[i]: gather returns the results in the order of the tasks
CompletedTask(g, i) == g.outcome[i]

\* lines 248-260, one turn of the loop over the tasks
CollectOne(g, results, i) ==
    LET platform == g.tasks[i]
        result == CompletedTask(g, i)
    IN  IF result = RAISE \/ result = NULL THEN results
        ELSE LET stored == [results EXCEPT ![platform] = result] IN
             IF platform = "fide"
                 THEN IF result # 0
                        THEN [stored EXCEPT !.highest_overall =
                                 IF result > @ THEN result ELSE @]
                        ELSE stored
                 ELSE IF result # 0 /\ result > stored.highest_overall
                        THEN [stored EXCEPT !.highest_overall = result]
                        ELSE stored

RECURSIVE Collect(_, _, _)
Collect(g, results, i) ==
    IF i > Len(g.tasks) THEN results ELSE Collect(g, CollectOne(g, results, i), i + 1)

\* every fetch has completed: gather returns and the results are collected
GatherReturn ==
    /\ gather.pc = "running"
    /\ Len(gather.order) = Len(gather.tasks)
    /\ gather' = [gather EXCEPT !.pc = "done", !.results = Collect(gather, @, 1)]
    /\ UNCHANGED <<players, response, retry, request>>

GatherDone ==
    /\ gather.pc = "done"
    /\ gather' = GatherIdle
    /\ UNCHANGED <<players, response, retry, request>>

NextGather ==
    \/ GatherStart
    \/ GatherComplete
    \/ GatherReturn
    \/ GatherDone

-----------------------------------------------------------------------------
(* A request from its arrival to its answer.  raw: the fields as sent; body:  *)
(* the fields the schema hands to the handler; id: the path's player_id;      *)
(* data: what get_sheet_data returned.                                        *)

MinFideId == 100000
MaxFideId == 99999999

\* the fide_id values a client may send
RawFideIds == {NULL, MinFideId - 1, MinFideId, MaxFideId + 1}

RawRequests ==
    [name : Names, fide_id : RawFideIds, chesscom_username : OptHandle,
     lichess_username : OptHandle]

\* "if v < 100000 or v > 99999999"
InFideRange(v) == v >= MinFideId /\ v <= MaxFideId

\* PlayerCreate.validate_fide_id: the ValueError leaves the validator
PlayerCreate(raw) ==
    IF raw.fide_id # NULL /\ ~InFideRange(raw.fide_id)
        THEN [ok |-> FALSE, body |-> raw]
        ELSE [ok |-> TRUE, body |-> raw]

\* PlayerUpdate.validate_fide_id: the ValueError is raised inside the try block whose
\* except clause catches ValueError and returns None
PlayerUpdate(raw) ==
    [ok |-> TRUE,
     body |-> IF raw.fide_id # NULL /\ ~InFideRange(raw.fide_id)
                  THEN [raw EXCEPT !.fide_id = NULL] ELSE raw]

NoFields == [name |-> NULL, fide_id |-> NULL, chesscom_username |-> NULL,
             lichess_username |-> NULL]

NoRequest ==
    [state |-> "none", op |-> "none", id |-> NULL, raw |-> NoFields, body |-> NoFields,
     data |-> <<>>]

\* no answer yet
Pending(op) == Reply(op, 0, {}, NULL, <<>>)

\* FastAPI builds the schema object before it calls the handler: a validation error is
\* answered 422 and the handler never runs
Receive(op, id, raw, v) ==
    /\ request.state = "none"
    /\ request' = [NoRequest EXCEPT !.state = IF v.ok THEN "pending" ELSE "invalid",
                                    !.op = op, !.id = id, !.raw = raw, !.body = v.body]
    /\ response' = IF v.ok THEN Pending(op) ELSE Reply(op, 422, {}, NULL, <<>>)
    /\ UNCHANGED <<players, retry, gather>>

FirstUnusedName(rows) ==
    {n \in Names : \A m \in Names : m < n => \E p \in rows : p.name = m}

ReceiveCreate ==
    \E raw \in RawRequests :
        /\ raw.name \in FirstUnusedName(players)
        /\ Receive("create_player", NULL, raw, PlayerCreate(raw))

ReceivePut ==
    \E id \in 1..MaxId : \E raw \in RawRequests :
        /\ raw.name \in FirstUnusedName(players)
        /\ Receive("put_player", id, raw, PlayerUpdate(raw))

ReceiveDelete ==
    \E name \in Names :
        Receive("delete_player", NULL, [NoFields EXCEPT !.name = name],
                [ok |-> TRUE, body |-> [NoFields EXCEPT !.name = name]])

\* the sheet is read by the handler itself
ReceiveSync ==
    /\ request.state = "none"
    /\ \E n \in 0..MaxSheetRows : \E data \in [1..n -> SheetRows] :
          request' = [NoRequest EXCEPT !.state = "pending", !.op = "sync_sheet",
                                       !.data = data]
    /\ response' = Pending("sync_sheet")
    /\ UNCHANGED <<players, retry, gather>>

Serving(op) == request.state = "pending" /\ request.op = op

Served == [request EXCEPT !.state = "served"]

\* the providers are down or do not know the player
ServeCreate ==
    /\ Serving("create_player")
    /\ Cardinality(players) < MaxPlayers
    /\ NextRowId(players) <= MaxId
    /\ \E o \in (IF CreateRejected(players, request.body) THEN {NoFetch}
                 ELSE OutcomesWithin(request.body, {RAISE, NULL}, {RAISE, NULL})) :
         LET r == CreatePlayerResult(players, request.body, o.fide, o.chesscom, o.lichess)
         IN  /\ players' = r.db
             /\ response' = Reply("create_player", r.status, r.calls, r.new_id, <<>>)
    /\ request' = Served
    /\ UNCHANGED <<retry, gather>>

ServePut ==
    /\ Serving("put_player")
    /\ LET r == PutPlayerResult(players, request.id, request.body) IN
         /\ players' = r.db
         /\ response' = Reply("put_player", r.status, {}, NULL, <<>>)
    /\ request' = Served
    /\ UNCHANGED <<retry, gather>>

ServeDelete ==
    /\ Serving("delete_player")
    /\ LET r == DeletePlayerResult(players, request.body.name) IN
         /\ players' = r.db
         /\ response' = Reply("delete_player", r.status, {}, NULL, <<>>)
    /\ request' = Served
    /\ UNCHANGED <<retry, gather>>

\* lines 123-143: the counters of the loop over the rows; a row of get_sheet_data always
\* has a name
RECURSIVE SyncCounts(_, _, _, _)
SyncCounts(data, i, success_count, error_count) ==
    IF i > Len(data)
        THEN <<success_count, error_count, Len(data)>>
    ELSE IF data[i].name = NULL
        THEN SyncCounts(data, i + 1, success_count, error_count + 1)
        ELSE SyncCounts(data, i + 1, success_count + 1, error_count)

ServeSync ==
    /\ Serving("sync_sheet")
    /\ LET r == SyncSheetResult(players, request.data) IN
         /\ players' = r.db
         /\ response' = Reply("sync_sheet", r.status, {}, NULL,
                              IF r.status = 200 THEN SyncCounts(request.data, 1, 0, 0)
                              ELSE <<>>)
    /\ request' = Served
    /\ UNCHANGED <<retry, gather>>

Idle == Reply("start", 200, {}, NULL, <<>>)

\* the answer has left: the service waits for the next request
Respond ==
    /\ request.state \in {"served", "invalid"}
    /\ request' = NoRequest
    /\ response' = Idle
    /\ UNCHANGED <<players, retry, gather>>

NextRequests ==
    \/ ReceiveCreate
    \/ ReceivePut
    \/ ReceiveDelete
    \/ ReceiveSync
    \/ ServeCreate
    \/ ServePut
    \/ ServeDelete
    \/ ServeSync
    \/ Respond

-----------------------------------------------------------------------------
(* Specifications *)

Init ==
    /\ InitDb
    /\ retry = RetryIdle
    /\ gather = GatherIdle
    /\ request = NoRequest

\* the rating and ranking requests
Next ==
    \/ CreatePlayer
    \/ RefreshPlayer
    \/ GetPlayerRatings
    \/ DeletePlayer
    \/ Rankings

Spec == Init /\ [][Next]_vars

\* the requests that edit the player set
NextAdmin ==
    \/ CreatePlayerUnrated
    \/ PutPlayer
    \/ DeletePlayer
    \/ SyncSheet

SpecAdmin == Init /\ [][NextAdmin]_vars

SpecRetry == Init /\ [][NextRetry]_vars

SpecRequests == Init /\ [][NextRequests]_vars

SpecFetch == Init /\ [][NextFetch]_vars

SpecGather == Init /\ [][NextGather]_vars

-----------------------------------------------------------------------------
(* Claims *)

NonNullRatings(p) == {r \in {p.fide_rating, p.chesscom_rating, p.lichess_rating} : r # NULL}

\* C1: in every stored state each player's highest_rating is the maximum of its non-null
\* fide_rating, chesscom_rating and lichess_rating, and is null exactly when all three
\* are null.
C1_HighestIsMaxOfRatings ==
    \A p \in players :
        p.highest_rating =
            IF NonNullRatings(p) = {} THEN NULL ELSE MaxOf(NonNullRatings(p))

RatingFor(p, prov) ==
    CASE prov = "fide" -> p.fide_rating
      [] prov = "chesscom" -> p.chesscom_rating
      [] prov = "lichess" -> p.lichess_rating

Raised(calls) == {k.prov : k \in {j \in calls : j.res = RAISE}}

RefreshOps == {"create_player", "refresh_player", "refresh_all"}

\* C2: the rank get_rankings reports for each player (its stored ID) is the player's
\* 1-based position in the order by highest_rating descending, nulls last: the ranks
\* reported are 1..n.
C2_RankIsPosition ==
    response.op = "get_rankings" =>
        \A i \in 1..Len(response.body) : response.body[i].rank = i

C5_PartialResultsKept ==
    response.op \in RefreshOps =>
        \A k \in response.calls : Truthy(k.res) =>
            /\ response.status = 200
            /\ LET id == IF response.op = "create_player" THEN response.new_id ELSE k.id
               IN  \E p \in players : p.id = id /\ RatingFor(p, k.prov) = k.res

C7_IdentifiersUnique ==
    \A p, q \in players : p # q =>
        /\ p.name # q.name
        /\ p.fide_id # NULL => p.fide_id # q.fide_id
        /\ p.chesscom_username # NULL => p.chesscom_username # q.chesscom_username
        /\ p.lichess_username # NULL => p.lichess_username # q.lichess_username

Anonymous(ranked) == [i \in 1..Len(ranked) |-> [ranked[i] EXCEPT !.id = 0]]

IdsInRankOrder(rows) ==
    LET ranked == GetPlayersByRating(rows) IN \A i \in 1..Len(ranked) : ranked[i].id = i

\* C10: if the stored IDs are 1..n in rank order, a create_player request that passes
\* the checks and whose fetches do not raise succeeds whatever the new player's
\* highest_rating, and leaves the stored IDs 1..n+1 in rank order.
C10_CreateKeepsIdsInRankOrder ==
    [][(/\ response'.op = "create_player"
        /\ response'.fetches > 0
        /\ Raised(response'.calls) = {}
        /\ IdsInRankOrder(players))
       => (/\ response'.status = 200
           /\ Cardinality(players') = Cardinality(players) + 1
           /\ IdsInRankOrder(players'))
      ]_vars

AllErrors(history) == \A k \in 1..Len(history) : history[k] = "error"

\* C4: when every invocation of the function wrapped by async_retry(retries=N) raises a
\* matching exception, the wrapper makes the first call and exactly N retries, never
\* more, and then raises the exception of the last invocation.
C4_ExactlyNRetriesThenLastException ==
    AllErrors(retry.history) =>
        /\ Len(retry.history) <= retry.retries + 1
        /\ retry.pc = "raised" =>
              /\ Len(retry.history) = retry.retries + 1
              /\ Len(retry.sleeps) = retry.retries
              /\ retry.raised = Len(retry.history)

\* a wrapper with retries=3 that raised after four failed invocations
C4_Witness ==
    /\ retry.pc = "raised"
    /\ retry.retries = 3
    /\ Len(retry.history) = 4
    /\ AllErrors(retry.history)

Succeeded(out) == out # RAISE /\ out # NULL

OutcomeOf(g, platform) ==
    IF \E i \in 1..Len(g.tasks) : g.tasks[i] = platform
        THEN g.outcome[CHOOSE i \in 1..Len(g.tasks) : g.tasks[i] = platform]
        ELSE NULL

\* C9: whatever the order in which the fetches of get_all_ratings complete, each platform
\* entry holds that provider's result if it succeeded with a non-null value and null
\* otherwise, and highest_overall is the maximum of the successful Chess.com rating,
\* Lichess rating and FIDE rapid rating, or 0 if there is none.
C9_ResultIndependentOfCompletionOrder ==
    gather.pc = "done" =>
        /\ \A i \in 1..3 :
              gather.results[Platforms[i]] =
                 IF Succeeded(OutcomeOf(gather, Platforms[i]))
                     THEN OutcomeOf(gather, Platforms[i]) ELSE NULL
        /\ gather.results.highest_overall =
              MaxOf({0} \cup {OutcomeOf(gather, Platforms[i]) : i \in
                                 {j \in 1..3 : Succeeded(OutcomeOf(gather, Platforms[j]))}})

\* three fetches that completed last-to-first, Chess.com raising and the others rated
C9_Witness ==
    /\ gather.pc = "done"
    /\ gather.order = <<3, 2, 1>>
    /\ gather.outcome[1] = RAISE
    /\ gather.results.lichess \in Ratings
    /\ gather.results.fide \in Ratings
    /\ gather.results.highest_overall > 0

\* the request names no identifier, or one of its fields belongs to a stored player
Refused(rows, req) ==
    \/ {req.fide_id, req.chesscom_username, req.lichess_username} = {NULL}
    \/ \E p \in rows :
          \/ p.name = req.name
          \/ req.fide_id # NULL /\ p.fide_id = req.fide_id
          \/ req.chesscom_username # NULL /\ p.chesscom_username = req.chesscom_username
          \/ req.lichess_username # NULL /\ p.lichess_username = req.lichess_username

\* C11: a create_player request that carries no identifier, or whose name, fide_id,
\* chesscom_username or lichess_username belongs to a stored player, is answered 400
\* without any provider fetch and leaves the stored players as they were.
C11_RefusedCreateChangesNothing ==
    [][(Serving("create_player") /\ request'.state = "served"
        /\ Refused(players, request.body))
       => (/\ response'.status = 400
           /\ response'.fetches = 0
           /\ players' = players)
      ]_vars

\* a creation refused because a stored player of another id has its name
C11_Witness ==
    /\ request.state = "served"
    /\ request.op = "create_player"
    /\ request.body.chesscom_username # NULL
    /\ \E p \in players : p.name = request.body.name
    /\ \A p \in players : p.chesscom_username # request.body.chesscom_username
    /\ response.status = 400
    /\ response.fetches = 0

\* C12: async_retry returns the result of the first invocation that does not raise and
\* neither invokes nor sleeps after it: a function that succeeds on its k-th invocation
\* is invoked k times, after k-1 sleeps.
C12_ReturnsFirstSuccess ==
    LET h == retry.history IN
    /\ \A i \in 1..Len(h) - 1 : h[i] = "error"
    /\ (h # <<>> /\ h[Len(h)] = "ok") =>
          /\ retry.pc = "returned"
          /\ retry.returned = Len(h)
          /\ Len(retry.sleeps) = Len(h) - 1
    /\ retry.pc = "returned" => h # <<>> /\ h[Len(h)] = "ok"

\* a function that succeeded on its last allowed invocation, the fourth of retries=3
C12_Witness ==
    /\ retry.pc = "returned"
    /\ retry.retries = 3
    /\ retry.history = <<"error", "error", "error", "ok">>
    /\ retry.returned = 4

RECURSIVE Pow(_, _)
Pow(b, n) == IF n = 0 THEN 1 ELSE b * Pow(b, n - 1)

\* C13: the wait before the k-th retry is delay * backoff^(k-1); a wait happens only
\* between two invocations, and none follows the last failed invocation.
C13_WaitsGrowGeometrically ==
    /\ \A k \in 1..Len(retry.sleeps) :
          retry.sleeps[k] = retry.delay * Pow(retry.backoff, k - 1)
    /\ retry.pc = "call" => Len(retry.sleeps) = Len(retry.history)
    /\ retry.pc \in {"sleep", "returned", "raised"} =>
          Len(retry.sleeps) = Len(retry.history) - 1
    /\ Len(retry.sleeps) <= retry.retries

\* the configured delay=1, backoff=2, retries=3 with every invocation failing: waits of
\* 1, 2 and 4 seconds, and none after the fourth failure
C13_Witness ==
    /\ retry.pc = "raised"
    /\ retry.delay = 1 /\ retry.backoff = 2 /\ retry.retries = 3
    /\ Len(retry.history) = 4
    /\ retry.sleeps = <<1, 2, 4>>

Retried(n) ==
    \/ n <= ConfiguredRetries /\ retry.pc \in {"sleep", "call"}
    \/ n = ConfiguredRetries + 1 /\ retry.pc = "raised" /\ retry.raised = n

\* C14: for get_chesscom_rating and get_lichess_rating a 404 gives None at once, without
\* a retry, and any other status but 200 raises and is retried until the fourth request
\* has failed; for get_fide_rating every status but 200, 404 too, is retried that way.
C14_Only404OfPlatformsIsNotRetried ==
    LET st == retry.statuses
        n == Len(st)
    IN  (retry.fn \in Fetchers /\ n > 0) =>
          /\ retry.pc = "raised" => n = ConfiguredRetries + 1
          /\ retry.fn \in {"chesscom", "lichess"} =>
                /\ \A i \in 1..n - 1 : st[i] \notin {200, 404}
                /\ st[n] = 404 =>
                      /\ retry.pc = "returned"
                      /\ retry.value = NULL
                      /\ Len(retry.sleeps) = n - 1
                /\ st[n] \notin {200, 404} => Retried(n)
          /\ retry.fn = "fide" =>
                /\ \A i \in 1..n - 1 : st[i] # 200
                /\ st[n] # 200 => Retried(n)

\* get_chesscom_rating answered 404 on its first request: None after one request
C14_Witness ==
    /\ retry.fn = "chesscom"
    /\ retry.statuses = <<404>>
    /\ retry.pc = "returned"
    /\ retry.sleeps = <<>>

TargetMissing ==
    \/ Serving("put_player") /\ request.id \notin Ids(players)
    \/ Serving("delete_player") /\ \A p \in players : p.name # request.body.name

\* C15: a PUT for an id that is not stored and a DELETE for a name that is not stored are
\* answered 404 and leave the stored players unchanged.
C15_MissingTargetIs404 ==
    [][(TargetMissing /\ request'.state = "served")
            => (response'.status = 404 /\ players' = players)]_vars

\* C16: POST /players/{player_id}/update/ answers 500 when every provider fetch it made
\* for the player failed: it answers 200 only if some fetch gave a rating.
C16_AllFetchesFailedIs500 ==
    ( /\ response.op = "refresh_player"
      /\ response.fetches > 0
      /\ Cardinality(response.calls) = response.fetches
      /\ \A k \in response.calls : k.res = RAISE )
        => response.status = 500

OutOfRange(raw) == raw.fide_id # NULL /\ (raw.fide_id < MinFideId \/ raw.fide_id > MaxFideId)

\* C17: PlayerCreate and PlayerUpdate both reject a fide_id outside 100000..99999999 with
\* a validation error: no request with such a fide_id is accepted, with the value
\* replaced by null or otherwise.
C17_OutOfRangeFideIdRejected ==
    (request.op \in {"create_player", "put_player"} /\ OutOfRange(request.raw))
        => (request.state = "invalid" /\ response.status = 422)

SameFideIdTwice(data) ==
    \E i, j \in 1..Len(data) :
        i # j /\ data[i].fide_id # NULL /\ data[i].fide_id = data[j].fide_id

\* p is the player made of a sheet row: its name and fide_id, nothing else
IsSheetRow(p, row) ==
    /\ p.name = row.name
    /\ p.fide_id = row.fide_id
    /\ p.chesscom_username = NULL
    /\ p.lichess_username = NULL
    /\ RatingsOf(p) = {NULL}
    /\ p.highest_rating = NULL

\* C18: sync_sheet_data replaces the players atomically: an empty sheet is answered 400
\* with no player deleted; a sheet whose rows cannot be inserted (two rows with one
\* fide_id) is answered 500 with the stored players as they were; otherwise the stored
\* players are exactly the sheet rows, all ratings null, and
\* success_count + error_count = total_rows.
C18_SyncReplacesAtomically ==
    [][(Serving("sync_sheet") /\ request'.state = "served") =>
        LET data == request.data IN
        /\ data = <<>> => (response'.status = 400 /\ players' = players)
        /\ SameFideIdTwice(data) => (response'.status = 500 /\ players' = players)
        /\ response'.status # 200 => players' = players
        /\ (data # <<>> /\ ~SameFideIdTwice(data)) =>
              /\ response'.status = 200
              /\ Cardinality(players') = Len(data)
              /\ \A i \in 1..Len(data) :
                    \E p \in players' : p.id = i /\ IsSheetRow(p, data[i])
              /\ response'.body[1] + response'.body[2] = response'.body[3]
              /\ response'.body[3] = Len(data)]_vars

\* a sync of two rows with one fide_id was answered 500 and players are still stored
C18_Witness ==
    /\ request.state = "served"
    /\ request.op = "sync_sheet"
    /\ SameFideIdTwice(request.data)
    /\ response.status = 500
    /\ players # {}

Named(rows, name) == {p \in rows : p.name = name}

\* C19: delete_player of a stored name removes exactly one player of that name and leaves
\* every other player, its ID included, as it was; the name is absent afterwards if one
\* player had it.
C19_DeleteRemovesExactlyOne ==
    [][(Serving("delete_player") /\ request'.state = "served"
            /\ Named(players, request.body.name) # {}) =>
        LET name == request.body.name IN
        /\ response'.status = 200
        /\ \E p \in Named(players, name) : players' = players \ {p}
        /\ Cardinality(players') = Cardinality(players) - 1
        /\ Cardinality(Named(players, name)) = 1 => Named(players', name) = {}]_vars

\* a delete was answered 200 and another player of that name is still stored
C19_Witness ==
    /\ request.state = "served"
    /\ request.op = "delete_player"
    /\ response.status = 200
    /\ Named(players, request.body.name) # {}

=============================================================================
